---- MODULE Spec2Model ----
(***************************************************************************)
(* Model of the 8-bit ALU engine of src/alu_simulator.py (class ALU).      *)
(* The engine object is the pair (result, flags); execute(a, b, opcode)    *)
(* is the only operation that changes it.  Python integers are unbounded,  *)
(* so the bitwise operators are modelled on two's-complement integers of   *)
(* arbitrary size, bit by bit.                                             *)
(***************************************************************************)
EXTENDS Integers, FiniteSets, Sequences, TLC

VARIABLES result, flags, a, b, opcode, ret

\* the argument and the label of the latest get_operation_name call
VARIABLES name_arg, name_ret

\* the engine, and the latest execute call on it
engine_vars == <<result, flags>>

call_vars == <<a, b, opcode, ret>>

lookup_vars == <<name_arg, name_ret>>

\* the dictionary objects: heap[i] is the content of object i, self_flags the
\* object self.flags refers to, held the object a caller kept from the pair
\* an earlier execute returned (NoObject when it holds none).  Spec and
\* SpecLookup follow the flags by value only and leave these alone.
VARIABLES heap, self_flags, held

alias_vars == <<heap, self_flags, held>>

\* threads that share the engine: pc[t] is the statement of execute thread t
\* is at, targs[t] the arguments of its call, tval[t] the value its handler
\* returned and that is not stored yet, tret[t] what its call returned, and
\* alone[t] whether no other thread has touched the engine since its call
\* began
VARIABLES pc, targs, tval, tret, alone

conc_vars == <<pc, targs, tval, tret, alone>>

\* the window of ALUSimulatorGUI: the text of the two operand entries (a
\* sequence of characters), the two rows of checkbox variables (element 1 is
\* bit 7, element 8 is bit 0, as in the lists bit_vars_a and bit_vars_b), the
\* binary labels next to the entries, the four synchronisation guards, the
\* state of the accumulator button, the status bar, the flag LEDs, the
\* retained current_result (NoResult while the attribute does not exist),
\* the signed toggle, the result labels, and the error dialog the latest
\* event opened ("none" when it opened none)
VARIABLES entry_a, entry_b, bit_vars_a, bit_vars_b, label_a_bin, label_b_bin,
          updating_from_text_a, updating_from_bits_a,
          updating_from_text_b, updating_from_bits_b,
          btn_accumulator, status_label, flag_leds, current_result,
          show_signed, label_result, messagebox

gui_vars == <<entry_a, entry_b, bit_vars_a, bit_vars_b, label_a_bin, label_b_bin,
              updating_from_text_a, updating_from_bits_a,
              updating_from_text_b, updating_from_bits_b,
              btn_accumulator, status_label, flag_leds, current_result,
              show_signed, label_result, messagebox>>

vars == <<engine_vars, call_vars, lookup_vars, alias_vars, conc_vars, gui_vars>>

-----------------------------------------------------------------------------
(* Bounds of the model.                                                    *)

\* the operands of the specifications that carry more state than Spec
SmallOperands == {1, 255}

\* the small operands are 0..MaxSmall
MaxSmall == 1

\* opcodes range over 0..MaxOpcode; 0..5 are defined, the rest are invalid
MaxOpcode == 6

\* the operands on either side of the places where the sign, the carry and
\* the masking of an 8-bit register change, among them two values outside
\* 0..255
Edges == {-1, 127, 128, 255, 256}

Operands == (0..MaxSmall) \cup Edges

Opcodes == 0..MaxOpcode

-----------------------------------------------------------------------------
(* Opcodes of class ALU.                                                   *)

OP_ADD == 0
OP_SUB == 1
OP_AND == 2
OP_OR == 3
OP_XOR == 4
OP_NOT == 5

-----------------------------------------------------------------------------
(* Python's integer operators.  \div and % floor, as Python's // and % do, *)
(* so x \div 2 and x % 2 are the arithmetic shift and the low bit of the   *)
(* two's-complement representation of x, also for negative x; 0 and -1 are *)
(* the integers whose bits are all 0 and all 1.                            *)

\* ~x
BitNot(x) == (-x) - 1

\* x & y
RECURSIVE BitAnd(_, _)
BitAnd(x, y) ==
    IF x = 0 \/ y = 0 THEN 0
    ELSE IF x = -1 THEN y
    ELSE IF y = -1 THEN x
    ELSE (x % 2) * (y % 2) + 2 * BitAnd(x \div 2, y \div 2)

\* x | y
RECURSIVE BitOr(_, _)
BitOr(x, y) ==
    IF x = 0 THEN y
    ELSE IF y = 0 THEN x
    ELSE IF x = -1 \/ y = -1 THEN -1
    ELSE (IF x % 2 = 1 \/ y % 2 = 1 THEN 1 ELSE 0) + 2 * BitOr(x \div 2, y \div 2)

\* x ^ y
RECURSIVE BitXor(_, _)
BitXor(x, y) ==
    IF x = 0 THEN y
    ELSE IF y = 0 THEN x
    ELSE IF x = -1 THEN BitNot(y)
    ELSE IF y = -1 THEN BitNot(x)
    ELSE (IF x % 2 # y % 2 THEN 1 ELSE 0) + 2 * BitXor(x \div 2, y \div 2)

\* x >> n
ShiftRight(x, n) == x \div (2 ^ n)

-----------------------------------------------------------------------------
(* The engine.  A method that changes self is an operator from the engine  *)
(* record self = [result, flags] to the changed record (and, where the     *)
(* method returns a value, that value).                                    *)

NoFlags == [Z |-> 0, N |-> 0, C |-> 0, V |-> 0]

\* ALU.__init__
ALU_init == [result |-> 0, flags |-> NoFlags]

\* _add with the carry test off by one (>= 255 for > 255)
_add_carry_at_255(self, x, y) ==
    LET sum == x + y
    IN  [self |-> IF sum >= 255
                  THEN [self EXCEPT !.flags.C = 1]
                  ELSE self,
         value |-> BitAnd(sum, 255)]

\* _add taking the retained result for its first operand, as an accumulator
\* machine would
_add_from_accumulator(self, x, y) ==
    LET sum == self.result + y
    IN  [self |-> IF sum > 255
                  THEN [self EXCEPT !.flags.C = 1]
                  ELSE self,
         value |-> BitAnd(sum, 255)]

\* ALU._add: sets C when the raw sum exceeds 255, returns the sum cut to 8 bits
_add(self, x, y) ==
    LET sum == x + y
    IN  [self |-> IF sum > 255
                  THEN [self EXCEPT !.flags.C = 1]
                  ELSE self,
         value |-> BitAnd(sum, 255)]

\* _sub with the borrow test off by one (<= 0 for < 0)
_sub_borrow_at_0(self, x, y) ==
    LET diff == x - y
    IN  [self |-> IF diff <= 0
                  THEN [self EXCEPT !.flags.C = 1]
                  ELSE self,
         value |-> BitAnd(diff, 255)]

\* ALU._sub: sets C when the raw difference is negative
_sub(self, x, y) ==
    LET diff == x - y
    IN  [self |-> IF diff < 0
                  THEN [self EXCEPT !.flags.C = 1]
                  ELSE self,
         value |-> BitAnd(diff, 255)]

_and(self, x, y) == [self |-> self, value |-> BitAnd(BitAnd(x, y), 255)]

\* _or computing the exclusive or
_or_as_xor(self, x, y) == [self |-> self, value |-> BitAnd(BitXor(x, y), 255)]

_or(self, x, y) == [self |-> self, value |-> BitAnd(BitOr(x, y), 255)]

_xor(self, x, y) == [self |-> self, value |-> BitAnd(BitXor(x, y), 255)]

\* _not without the cut to 8 bits
_not_no_mask(self, x) == [self |-> self, value |-> BitNot(x)]

_not(self, x) == [self |-> self, value |-> BitAnd(BitNot(x), 255)]

\* _calculate_overflow_add taking the unsigned overflow (the carry out of
\* bit 7) for the signed one
_calculate_overflow_add_on_carry(self, x, y) ==
    IF x + y > 255
    THEN [self EXCEPT !.flags.V = 1]
    ELSE self

\* _calculate_overflow_add with the operand test of the subtraction rule
_calculate_overflow_add_signs_differ(self, x, y) ==
    LET sign_a == ShiftRight(BitAnd(x, 128), 7)
        sign_b == ShiftRight(BitAnd(y, 128), 7)
        sign_result == ShiftRight(BitAnd(self.result, 128), 7)
    IN  IF sign_a # sign_b /\ sign_a # sign_result
        THEN [self EXCEPT !.flags.V = 1]
        ELSE self

\* ALU._calculate_overflow_add
_calculate_overflow_add(self, x, y) ==
    LET sign_a == ShiftRight(BitAnd(x, 128), 7)
        sign_b == ShiftRight(BitAnd(y, 128), 7)
        sign_result == ShiftRight(BitAnd(self.result, 128), 7)
    IN  IF sign_a = sign_b /\ sign_a # sign_result
        THEN [self EXCEPT !.flags.V = 1]
        ELSE self

\* _calculate_overflow_sub comparing the result's sign with b's, not a's
_calculate_overflow_sub_sign_of_b(self, x, y) ==
    LET sign_a == ShiftRight(BitAnd(x, 128), 7)
        sign_b == ShiftRight(BitAnd(y, 128), 7)
        sign_result == ShiftRight(BitAnd(self.result, 128), 7)
    IN  IF sign_a # sign_b /\ sign_b # sign_result
        THEN [self EXCEPT !.flags.V = 1]
        ELSE self

\* ALU._calculate_overflow_sub
_calculate_overflow_sub(self, x, y) ==
    LET sign_a == ShiftRight(BitAnd(x, 128), 7)
        sign_b == ShiftRight(BitAnd(y, 128), 7)
        sign_result == ShiftRight(BitAnd(self.result, 128), 7)
    IN  IF sign_a # sign_b /\ sign_a # sign_result
        THEN [self EXCEPT !.flags.V = 1]
        ELSE self

\* _calculate_flags that sets Z only after an arithmetic operation
_calculate_flags_zero_arith_only(self, x, y, op) ==
    LET s1 == IF self.result = 0 /\ op \in {OP_ADD, OP_SUB}
              THEN [self EXCEPT !.flags.Z = 1] ELSE self
        s2 == IF BitAnd(s1.result, 128) # 0 THEN [s1 EXCEPT !.flags.N = 1] ELSE s1
    IN  IF op = OP_ADD THEN _calculate_overflow_add(s2, x, y)
        ELSE IF op = OP_SUB THEN _calculate_overflow_sub(s2, x, y)
        ELSE s2

\* _calculate_flags that tests bit 6 (0x40) for N
_calculate_flags_negative_bit6(self, x, y, op) ==
    LET s1 == IF self.result = 0 THEN [self EXCEPT !.flags.Z = 1] ELSE self
        s2 == IF BitAnd(s1.result, 64) # 0 THEN [s1 EXCEPT !.flags.N = 1] ELSE s1
    IN  IF op = OP_ADD THEN _calculate_overflow_add(s2, x, y)
        ELSE IF op = OP_SUB THEN _calculate_overflow_sub(s2, x, y)
        ELSE s2

\* ALU._calculate_flags: Z, then N, then V for the arithmetic opcodes
_calculate_flags(self, x, y, op) ==
    LET s1 == IF self.result = 0 THEN [self EXCEPT !.flags.Z = 1] ELSE self
        s2 == IF BitAnd(s1.result, 128) # 0 THEN [s1 EXCEPT !.flags.N = 1] ELSE s1
    IN  IF op = OP_ADD THEN _calculate_overflow_add(s2, x, y)
        ELSE IF op = OP_SUB THEN _calculate_overflow_sub(s2, x, y)
        ELSE s2

\* the if/elif chain with a final else that leaves the result as it is
\* instead of raising
dispatch_default_noop(self, x, y, op) ==
    IF op = OP_ADD THEN [raised |-> FALSE, out |-> _add(self, x, y)]
    ELSE IF op = OP_SUB THEN [raised |-> FALSE, out |-> _sub(self, x, y)]
    ELSE IF op = OP_AND THEN [raised |-> FALSE, out |-> _and(self, x, y)]
    ELSE IF op = OP_OR THEN [raised |-> FALSE, out |-> _or(self, x, y)]
    ELSE IF op = OP_XOR THEN [raised |-> FALSE, out |-> _xor(self, x, y)]
    ELSE IF op = OP_NOT THEN [raised |-> FALSE, out |-> _not(self, x)]
    ELSE [raised |-> FALSE, out |-> [self |-> self, value |-> self.result]]

\* the if/elif chain handing the second operand to _not
dispatch_not_of_b(self, x, y, op) ==
    IF op = OP_ADD THEN [raised |-> FALSE, out |-> _add(self, x, y)]
    ELSE IF op = OP_SUB THEN [raised |-> FALSE, out |-> _sub(self, x, y)]
    ELSE IF op = OP_AND THEN [raised |-> FALSE, out |-> _and(self, x, y)]
    ELSE IF op = OP_OR THEN [raised |-> FALSE, out |-> _or(self, x, y)]
    ELSE IF op = OP_XOR THEN [raised |-> FALSE, out |-> _xor(self, x, y)]
    ELSE IF op = OP_NOT THEN [raised |-> FALSE, out |-> _not(self, y)]
    ELSE [raised |-> TRUE, out |-> [self |-> self, value |-> self.result]]

\* the if/elif chain of ALU.execute: the handler's outcome, or raised = TRUE
\* when no branch matches
dispatch(self, x, y, op) ==
    IF op = OP_ADD THEN [raised |-> FALSE, out |-> _add(self, x, y)]
    ELSE IF op = OP_SUB THEN [raised |-> FALSE, out |-> _sub(self, x, y)]
    ELSE IF op = OP_AND THEN [raised |-> FALSE, out |-> _and(self, x, y)]
    ELSE IF op = OP_OR THEN [raised |-> FALSE, out |-> _or(self, x, y)]
    ELSE IF op = OP_XOR THEN [raised |-> FALSE, out |-> _xor(self, x, y)]
    ELSE IF op = OP_NOT THEN [raised |-> FALSE, out |-> _not(self, x)]
    ELSE [raised |-> TRUE, out |-> [self |-> self, value |-> self.result]]

\* execute that raises before it has touched the engine
execute_raise_first(self, x, y, op) ==
    LET ma == BitAnd(x, 255)
        mb == BitAnd(y, 255)
        s0 == [self EXCEPT !.flags = NoFlags]
        d == dispatch(s0, ma, mb, op)
    IN  IF d.raised
        THEN [self |-> self,
              ret |-> [kind |-> "ValueError", result |-> 0, flags |-> NoFlags]]
        ELSE LET s1 == [d.out.self EXCEPT !.result = d.out.value]
                 s2 == _calculate_flags(s1, ma, mb, op)
             IN  [self |-> s2,
                  ret |-> [kind |-> "ok", result |-> s2.result, flags |-> s2.flags]]

\* execute without the reset of the flags (line 83)
execute_no_reset(self, x, y, op) ==
    LET ma == BitAnd(x, 255)
        mb == BitAnd(y, 255)
        s0 == self
        d == dispatch(s0, ma, mb, op)
    IN  IF d.raised
        THEN [self |-> s0,
              ret |-> [kind |-> "ValueError", result |-> 0, flags |-> NoFlags]]
        ELSE LET s1 == [d.out.self EXCEPT !.result = d.out.value]
                 s2 == _calculate_flags(s1, ma, mb, op)
             IN  [self |-> s2,
                  ret |-> [kind |-> "ok", result |-> s2.result, flags |-> s2.flags]]

\* execute without the masking of the operands (lines 78-79)
execute_no_mask(self, x, y, op) ==
    LET ma == x
        mb == y
        s0 == [self EXCEPT !.flags = NoFlags]
        d == dispatch(s0, ma, mb, op)
    IN  IF d.raised
        THEN [self |-> s0,
              ret |-> [kind |-> "ValueError", result |-> 0, flags |-> NoFlags]]
        ELSE LET s1 == [d.out.self EXCEPT !.result = d.out.value]
                 s2 == _calculate_flags(s1, ma, mb, op)
             IN  [self |-> s2,
                  ret |-> [kind |-> "ok", result |-> s2.result, flags |-> s2.flags]]

\* ALU.execute: the engine after the call and what the caller gets: the pair
\* (result, copy of the flags), or the ValueError of an invalid opcode
execute(self, x, y, op) ==
    LET ma == BitAnd(x, 255)
        mb == BitAnd(y, 255)
        s0 == [self EXCEPT !.flags = NoFlags]
        d == dispatch(s0, ma, mb, op)
    IN  IF d.raised
        THEN [self |-> s0,
              ret |-> [kind |-> "ValueError", result |-> 0, flags |-> NoFlags]]
        ELSE LET s1 == [d.out.self EXCEPT !.result = d.out.value]
                 s2 == _calculate_flags(s1, ma, mb, op)
             IN  [self |-> s2,
                  ret |-> [kind |-> "ok", result |-> s2.result, flags |-> s2.flags]]

\* get_operation_name with the entry of OP_NOT left out of the dictionary
get_operation_name_without_not(op) ==
    CASE op = 0 -> "ADD (Suma)"
      [] op = 1 -> "SUB (Resta)"
      [] op = 2 -> "AND"
      [] op = 3 -> "OR"
      [] op = 4 -> "XOR"
      [] OTHER -> "Desconocida"

\* ALU.get_operation_name: the dictionary lookup with its default
get_operation_name(op) ==
    CASE op = 0 -> "ADD (Suma)"
      [] op = 1 -> "SUB (Resta)"
      [] op = 2 -> "AND"
      [] op = 3 -> "OR"
      [] op = 4 -> "XOR"
      [] op = 5 -> "NOT"
      [] OTHER -> "Desconocida"

-----------------------------------------------------------------------------
(* The state machine: one engine and a caller that calls execute with any  *)
(* operands and opcode.  a, b, opcode are the arguments of the latest      *)
(* call and ret is what it gave back.                                      *)

NoReturn == [kind |-> "none", result |-> 0, flags |-> NoFlags]

\* no label has been looked up yet
NoLabel == ""

\* the dictionary objects that can be alive at once: the one self.flags
\* refers to, the one being built by a call, and the one a caller holds
ObjIds == 1..3

NoObject == 0

\* the threads that share one engine
Threads == {1, 2}

-----------------------------------------------------------------------------
(* Text.  An entry holds a sequence of characters; int() and str() are     *)
(* computed digit by digit.  The characters modelled are the digits, the   *)
(* two signs and letters; int() accepts an optional sign followed by one   *)
(* or more digits and raises ValueError on anything else.                  *)

DigitChars == <<"0", "1", "2", "3", "4", "5", "6", "7", "8", "9">>

\* the value of a digit character, -1 for any other character
DigitValue(c) ==
    CASE c = "0" -> 0 [] c = "1" -> 1 [] c = "2" -> 2 [] c = "3" -> 3
      [] c = "4" -> 4 [] c = "5" -> 5 [] c = "6" -> 6 [] c = "7" -> 7
      [] c = "8" -> 8 [] c = "9" -> 9 [] OTHER -> -1

IsDigits(t) == Len(t) > 0 /\ \A i \in 1..Len(t) : DigitValue(t[i]) >= 0

RECURSIVE DigitsToInt(_)
DigitsToInt(t) ==
    IF Len(t) = 0 THEN 0
    ELSE 10 * DigitsToInt(SubSeq(t, 1, Len(t) - 1)) + DigitValue(t[Len(t)])

\* int(text): [ok |-> TRUE, value |-> n], or ok = FALSE for ValueError
py_int(t) ==
    IF Len(t) > 0 /\ t[1] \in {"-", "+"}
    THEN IF IsDigits(Tail(t))
         THEN [ok |-> TRUE,
               value |-> (IF t[1] = "-" THEN -1 ELSE 1) * DigitsToInt(Tail(t))]
         ELSE [ok |-> FALSE, value |-> 0]
    ELSE IF IsDigits(t)
         THEN [ok |-> TRUE, value |-> DigitsToInt(t)]
         ELSE [ok |-> FALSE, value |-> 0]

\* str(n) of an integer
RECURSIVE py_str(_)
py_str(n) ==
    IF n < 0 THEN <<"-">> \o py_str(-n)
    ELSE IF n < 10 THEN <<DigitChars[n + 1]>>
    ELSE py_str(n \div 10) \o <<DigitChars[(n % 10) + 1]>>

\* format(value, '08b'): the eight bits of value, bit 7 first
format_08b(value) == [i \in 1..8 |-> (value \div (2 ^ (8 - i))) % 2]

\* the attributes __init__ and create_widgets give the window
GuiAttributes ==
    {"alu", "updating_from_text_a", "updating_from_bits_a",
     "updating_from_text_b", "updating_from_bits_b", "show_signed",
     "entry_a", "label_a_bin", "bit_vars_a", "bit_checks_a",
     "entry_b", "label_b_bin", "bit_vars_b", "bit_checks_b",
     "label_result_dec", "label_result_hex", "label_result_bin",
     "btn_accumulator", "flag_leds", "status_label"}

\* current_result before the first completed operation
NoResult == -1

\* the three result labels before the first completed operation
NoDisplay == [shown |-> FALSE, dec |-> 0, hex |-> 0, bin |-> format_08b(0)]

\* the binary label of an operand: the bits shown, or one of the two errors
BinaryLabel(kind, value) == [kind |-> kind, bits |-> format_08b(value)]

\* one message of the status bar: its fixed text, the text and the numbers
\* formatted into it
Msg(tag, text, nums) == [tag |-> tag, text |-> text, nums |-> nums]

\* the status bar: the messages shown and the background colour
StatusReady ==
    [msgs |-> <<Msg("Estado: Listo para operar", "", <<>>)>>, bg |-> "accent_color"]

LedsOff == [k \in {"Z", "N", "C", "V"} |-> "led_off"]

\* the engine as it stands
Engine == [result |-> result, flags |-> flags]

Init ==
    /\ result = ALU_init.result
    /\ flags = ALU_init.flags
    /\ a = 0
    /\ b = 0
    /\ opcode = 0
    /\ ret = NoReturn
    /\ name_arg = 0
    /\ name_ret = NoLabel
    /\ heap = [i \in ObjIds |-> IF i = 1 THEN ALU_init.flags ELSE NoFlags]
    /\ self_flags = 1
    /\ held = NoObject
    /\ pc = [t \in Threads |-> "idle"]
    /\ targs = [t \in Threads |-> [a |-> 0, b |-> 0, opcode |-> 0]]
    /\ tval = [t \in Threads |-> 0]
    /\ tret = [t \in Threads |-> NoReturn]
    /\ alone = [t \in Threads |-> TRUE]
    /\ entry_a = py_str(0)
    /\ entry_b = py_str(0)
    /\ bit_vars_a = [i \in 1..8 |-> 0]
    /\ bit_vars_b = [i \in 1..8 |-> 0]
    /\ label_a_bin = BinaryLabel("bits", 0)
    /\ label_b_bin = BinaryLabel("bits", 0)
    /\ updating_from_text_a = FALSE
    /\ updating_from_bits_a = FALSE
    /\ updating_from_text_b = FALSE
    /\ updating_from_bits_b = FALSE
    /\ btn_accumulator = "disabled"
    /\ status_label = StatusReady
    /\ flag_leds = LedsOff
    /\ current_result = NoResult
    /\ show_signed = 0
    /\ label_result = NoDisplay
    /\ messagebox = "none"

Execute(x, y, op) ==
    \E r \in {execute([result |-> result, flags |-> flags], x, y, op)} :
        /\ result' = r.self.result
        /\ flags' = r.self.flags
        /\ a' = x
        /\ b' = y
        /\ opcode' = op
        /\ ret' = r.ret
        /\ UNCHANGED <<lookup_vars, alias_vars, conc_vars, gui_vars>>

Next == \E x \in Operands, y \in Operands, op \in Opcodes : Execute(x, y, op)

Spec == Init /\ [][Next]_vars

-----------------------------------------------------------------------------
(* The engine with the label lookup: execute calls with the small operands *)
(* and get_operation_name calls with any opcode, in any order.             *)

\* the opcodes looked up: the six defined ones and values on either side
LookupOpcodes == -1..MaxOpcode

\* a call of the static method ALU.get_operation_name
GetOperationName(op) ==
    /\ name_arg' = op
    /\ name_ret' = get_operation_name(op)
    /\ UNCHANGED <<engine_vars, call_vars, alias_vars, conc_vars, gui_vars>>

NextLookup ==
    \/ \E op \in LookupOpcodes : GetOperationName(op)
    \/ \E x \in SmallOperands, y \in SmallOperands, op \in Opcodes : Execute(x, y, op)

SpecLookup == Init /\ [][NextLookup]_vars

-----------------------------------------------------------------------------
(* The engine with its flags as an object: self.flags refers to a          *)
(* dictionary, line 83 binds it to a new one, line 108 returns a copy, and *)
(* a caller that kept a returned dictionary may write to it.               *)

\* a new object: one that nothing in live refers to
NewObject(live) == CHOOSE i \in ObjIds \ live : \A j \in ObjIds \ live : i <= j

\* returning self.flags itself instead of a copy
dict_no_copy(h, ref, live) == [ref |-> ref, heap |-> h]

\* dict.copy(): a new object with the content of ref
dict_copy(h, ref, live) ==
    LET n == NewObject(live)
    IN  [ref |-> n, heap |-> [h EXCEPT ![n] = h[ref]]]

\* the objects nothing refers to any more are collected
Collect(h, live) == [i \in ObjIds |-> IF i \in live THEN h[i] ELSE NoFlags]

\* ALU.execute on the objects; keep says whether the caller keeps the
\* returned flags in place of the ones it held
ExecuteOnObjects(x, y, op, keep) ==
    \E r \in {execute([result |-> result, flags |-> heap[self_flags]], x, y, op)} :
        LET fresh == NewObject({self_flags, held})
            h1 == [heap EXCEPT ![fresh] = r.self.flags]
            c == dict_copy(h1, fresh, {fresh, held})
            got == IF r.ret.kind = "ok" /\ keep THEN c.ref ELSE held
            h2 == IF r.ret.kind = "ok" THEN c.heap ELSE h1
        IN  /\ result' = r.self.result
            /\ self_flags' = fresh
            /\ held' = got
            /\ heap' = Collect(h2, {fresh, got})
            /\ flags' = heap'[self_flags']
            /\ a' = x
            /\ b' = y
            /\ opcode' = op
            /\ ret' = r.ret
            /\ UNCHANGED <<lookup_vars, conc_vars, gui_vars>>

\* the caller writes v to key k of the flags it holds
CallerWrites(k, v) ==
    /\ held # NoObject
    /\ heap' = [heap EXCEPT ![held][k] = v]
    /\ flags' = heap'[self_flags]
    /\ UNCHANGED <<result, self_flags, held, call_vars, lookup_vars, conc_vars, gui_vars>>

NextAlias ==
    \/ \E x \in SmallOperands, y \in SmallOperands, op \in Opcodes, keep \in BOOLEAN :
          ExecuteOnObjects(x, y, op, keep)
    \/ \E k \in {"Z", "N", "C", "V"}, v \in {0, 1} : CallerWrites(k, v)

SpecAlias == Init /\ [][NextAlias]_vars

-----------------------------------------------------------------------------
(* The engine shared by threads.  execute holds no lock, so the calls of   *)
(* two threads interleave statement by statement: the reset of the flags,  *)
(* the handler (which may set C), the store of its value in self.result,   *)
(* the three parts of _calculate_flags, and the return each read or write  *)
(* the engine as it is at that moment.                                     *)

\* lines 258-259 of _calculate_flags
calc_zero(self) ==
    IF self.result = 0 THEN [self EXCEPT !.flags.Z = 1] ELSE self

\* lines 265-266 of _calculate_flags
calc_negative(self) ==
    IF BitAnd(self.result, 128) # 0 THEN [self EXCEPT !.flags.N = 1] ELSE self

\* lines 273-276 with the two overflow rules exchanged
calc_overflow_rules_exchanged(self, x, y, op) ==
    IF op = OP_ADD THEN _calculate_overflow_sub(self, x, y)
    ELSE IF op = OP_SUB THEN _calculate_overflow_add(self, x, y)
    ELSE self

\* lines 273-276 of _calculate_flags
calc_overflow(self, x, y, op) ==
    IF op = OP_ADD THEN _calculate_overflow_add(self, x, y)
    ELSE IF op = OP_SUB THEN _calculate_overflow_sub(self, x, y)
    ELSE self

\* the opcodes the threads call with: an arithmetic one, a logical one and
\* an invalid one
ConcOpcodes == {OP_ADD, OP_AND, MaxOpcode}

InCall(t) == pc[t] \notin {"idle", "done"}

\* thread t touches the engine: no other call in progress is alone any more
Touch(t) ==
    alone' = [u \in Threads |-> IF u # t /\ InCall(u) THEN FALSE ELSE alone[u]]

\* thread t calls execute(x, y, op)
ConcCall(t, x, y, op) ==
    /\ ~InCall(t)
    /\ pc' = [pc EXCEPT ![t] = "reset"]
    /\ targs' = [targs EXCEPT ![t] = [a |-> x, b |-> y, opcode |-> op]]
    /\ tval' = [tval EXCEPT ![t] = 0]
    /\ tret' = [tret EXCEPT ![t] = NoReturn]
    /\ alone' = [alone EXCEPT ![t] = TRUE]
    /\ UNCHANGED <<engine_vars, call_vars, lookup_vars, alias_vars, gui_vars>>

\* line 83
ConcReset(t) ==
    /\ pc[t] = "reset"
    /\ flags' = NoFlags
    /\ pc' = [pc EXCEPT ![t] = "handler"]
    /\ Touch(t)
    /\ UNCHANGED <<result, targs, tval, tret, call_vars, lookup_vars, alias_vars, gui_vars>>

\* lines 87-100: the handler runs on the masked operands; its value is not
\* stored yet
ConcHandler(t) ==
    /\ pc[t] = "handler"
    /\ \E d \in {dispatch(Engine, BitAnd(targs[t].a, 255), BitAnd(targs[t].b, 255),
                          targs[t].opcode)} :
          IF d.raised
          THEN /\ tret' = [tret EXCEPT ![t] =
                              [kind |-> "ValueError", result |-> 0, flags |-> NoFlags]]
               /\ pc' = [pc EXCEPT ![t] = "done"]
               /\ UNCHANGED <<flags, tval>>
          ELSE /\ flags' = d.out.self.flags
               /\ tval' = [tval EXCEPT ![t] = d.out.value]
               /\ pc' = [pc EXCEPT ![t] = "store"]
               /\ UNCHANGED tret
    /\ Touch(t)
    /\ UNCHANGED <<result, targs, call_vars, lookup_vars, alias_vars, gui_vars>>

\* the assignment to self.result of lines 88-98
ConcStore(t) ==
    /\ pc[t] = "store"
    /\ result' = tval[t]
    /\ pc' = [pc EXCEPT ![t] = "zero"]
    /\ Touch(t)
    /\ UNCHANGED <<flags, targs, tval, tret, call_vars, lookup_vars, alias_vars, gui_vars>>

ConcZero(t) ==
    /\ pc[t] = "zero"
    /\ flags' = calc_zero(Engine).flags
    /\ pc' = [pc EXCEPT ![t] = "negative"]
    /\ Touch(t)
    /\ UNCHANGED <<result, targs, tval, tret, call_vars, lookup_vars, alias_vars, gui_vars>>

ConcNegative(t) ==
    /\ pc[t] = "negative"
    /\ flags' = calc_negative(Engine).flags
    /\ pc' = [pc EXCEPT ![t] = "overflow"]
    /\ Touch(t)
    /\ UNCHANGED <<result, targs, tval, tret, call_vars, lookup_vars, alias_vars, gui_vars>>

ConcOverflow(t) ==
    /\ pc[t] = "overflow"
    /\ flags' = calc_overflow(Engine, BitAnd(targs[t].a, 255), BitAnd(targs[t].b, 255),
                              targs[t].opcode).flags
    /\ pc' = [pc EXCEPT ![t] = "return"]
    /\ Touch(t)
    /\ UNCHANGED <<result, targs, tval, tret, call_vars, lookup_vars, alias_vars, gui_vars>>

\* line 108
ConcReturn(t) ==
    /\ pc[t] = "return"
    /\ tret' = [tret EXCEPT ![t] = [kind |-> "ok", result |-> result, flags |-> flags]]
    /\ pc' = [pc EXCEPT ![t] = "done"]
    /\ Touch(t)
    /\ UNCHANGED <<engine_vars, targs, tval, call_vars, lookup_vars, alias_vars, gui_vars>>

NextConc ==
    \E t \in Threads :
        \/ \E x \in SmallOperands, y \in SmallOperands, op \in ConcOpcodes :
              ConcCall(t, x, y, op)
        \/ ConcReset(t)
        \/ ConcHandler(t)
        \/ ConcStore(t)
        \/ ConcZero(t)
        \/ ConcNegative(t)
        \/ ConcOverflow(t)
        \/ ConcReturn(t)

SpecConc == Init /\ [][NextConc]_vars

-----------------------------------------------------------------------------
(* The window.  Every handler is an operator on the window record w (and   *)
(* the engine where it uses it); Tk runs the handlers one at a time on its *)
(* event loop, so each event is one step.                                  *)

\* the window as an event finds it; showerror is modal, so no dialog is open
\* when the next event is handled
Window ==
    [entry_a |-> entry_a, entry_b |-> entry_b,
     bit_vars_a |-> bit_vars_a, bit_vars_b |-> bit_vars_b,
     label_a_bin |-> label_a_bin, label_b_bin |-> label_b_bin,
     updating_from_text_a |-> updating_from_text_a,
     updating_from_bits_a |-> updating_from_bits_a,
     updating_from_text_b |-> updating_from_text_b,
     updating_from_bits_b |-> updating_from_bits_b,
     btn_accumulator |-> btn_accumulator, status_label |-> status_label,
     flag_leds |-> flag_leds, current_result |-> current_result,
     show_signed |-> show_signed, label_result |-> label_result,
     messagebox |-> "none"]

SetWindow(w) ==
    \E v \in {w} :
        /\ messagebox' = v.messagebox
        /\ entry_a' = v.entry_a
        /\ entry_b' = v.entry_b
        /\ bit_vars_a' = v.bit_vars_a
        /\ bit_vars_b' = v.bit_vars_b
        /\ label_a_bin' = v.label_a_bin
        /\ label_b_bin' = v.label_b_bin
        /\ updating_from_text_a' = v.updating_from_text_a
        /\ updating_from_bits_a' = v.updating_from_bits_a
        /\ updating_from_text_b' = v.updating_from_text_b
        /\ updating_from_bits_b' = v.updating_from_bits_b
        /\ btn_accumulator' = v.btn_accumulator
        /\ status_label' = v.status_label
        /\ flag_leds' = v.flag_leds
        /\ current_result' = v.current_result
        /\ show_signed' = v.show_signed
        /\ label_result' = v.label_result

\* the checkbox values update_binary_a and update_binary_b set for a value
BitsOfValue(value) == [i \in 1..8 |-> BitAnd(ShiftRight(value, 8 - i), 1)]

\* the row added up with element 1 as bit 0
RECURSIVE ValueOfBits_bit0_first(_, _)
ValueOfBits_bit0_first(bits, i) ==
    IF i > 8 THEN 0
    ELSE (IF bits[i] = 1 THEN 2 ^ (i - 1) ELSE 0) + ValueOfBits_bit0_first(bits, i + 1)

\* the value sync_bits_to_text_a and sync_bits_to_text_b add up from a row
RECURSIVE ValueOfBits(_, _)
ValueOfBits(bits, i) ==
    IF i > 8 THEN 0
    ELSE (IF bits[i] = 1 THEN 2 ^ (8 - i) ELSE 0) + ValueOfBits(bits, i + 1)

\* update_binary_a that returns from its except clause with the guard set
update_binary_a_guard_left_set(w) ==
    IF w.updating_from_bits_a THEN w
    ELSE LET value == py_int(w.entry_a)
         IN  IF ~value.ok
             THEN [w EXCEPT !.label_a_bin = BinaryLabel("valor invalido", 0),
                            !.updating_from_text_a = TRUE]
             ELSE IF 0 <= value.value /\ value.value <= 255
             THEN [w EXCEPT !.label_a_bin = BinaryLabel("bits", value.value),
                            !.bit_vars_a = BitsOfValue(value.value),
                            !.updating_from_text_a = FALSE]
             ELSE [w EXCEPT !.label_a_bin = BinaryLabel("fuera de rango 0-255", 0),
                            !.updating_from_text_a = FALSE]

update_binary_a(w) ==
    IF w.updating_from_bits_a THEN w
    ELSE LET value == py_int(w.entry_a)
         IN  IF ~value.ok
             THEN [w EXCEPT !.label_a_bin = BinaryLabel("valor invalido", 0),
                            !.updating_from_text_a = FALSE]
             ELSE IF 0 <= value.value /\ value.value <= 255
             THEN [w EXCEPT !.label_a_bin = BinaryLabel("bits", value.value),
                            !.bit_vars_a = BitsOfValue(value.value),
                            !.updating_from_text_a = FALSE]
             ELSE [w EXCEPT !.label_a_bin = BinaryLabel("fuera de rango 0-255", 0),
                            !.updating_from_text_a = FALSE]

sync_bits_to_text_a(w) ==
    IF w.updating_from_text_a THEN w
    ELSE LET value == ValueOfBits(w.bit_vars_a, 1)
         IN  [w EXCEPT !.entry_a = py_str(value),
                       !.label_a_bin = BinaryLabel("bits", value),
                       !.updating_from_bits_a = FALSE]

update_binary_b(w) ==
    IF w.updating_from_bits_b THEN w
    ELSE LET value == py_int(w.entry_b)
         IN  IF ~value.ok
             THEN [w EXCEPT !.label_b_bin = BinaryLabel("valor invalido", 0),
                            !.updating_from_text_b = FALSE]
             ELSE IF 0 <= value.value /\ value.value <= 255
             THEN [w EXCEPT !.label_b_bin = BinaryLabel("bits", value.value),
                            !.bit_vars_b = BitsOfValue(value.value),
                            !.updating_from_text_b = FALSE]
             ELSE [w EXCEPT !.label_b_bin = BinaryLabel("fuera de rango 0-255", 0),
                            !.updating_from_text_b = FALSE]

sync_bits_to_text_b(w) ==
    IF w.updating_from_text_b THEN w
    ELSE LET value == ValueOfBits(w.bit_vars_b, 1)
         IN  [w EXCEPT !.entry_b = py_str(value),
                       !.label_b_bin = BinaryLabel("bits", value),
                       !.updating_from_bits_b = FALSE]

to_signed_8bit(unsigned_value) ==
    IF unsigned_value > 127 THEN unsigned_value - 256 ELSE unsigned_value

update_result_display(w) ==
    IF w.current_result = NoResult THEN w
    ELSE [w EXCEPT !.label_result =
            [shown |-> TRUE,
             dec |-> IF w.show_signed = 1 THEN to_signed_8bit(w.current_result)
                     ELSE w.current_result,
             hex |-> w.current_result,
             bin |-> format_08b(w.current_result)]]

\* the messages update_status_bar collects, most important first
StatusMessages(fl, op_name, x, y, r) ==
    (IF fl.V = 1 THEN <<Msg("OVERFLOW", "", <<>>)>> ELSE <<>>)
    \o (IF fl.C = 1
        THEN IF op_name = get_operation_name(OP_ADD)
             THEN <<Msg("CARRY", "", <<x, y, x + y>>)>>
             ELSE IF op_name = get_operation_name(OP_SUB)
             THEN <<Msg("BORROW", "", <<x, y>>)>>
             ELSE <<>>
        ELSE <<>>)
    \o (IF fl.N = 1 THEN <<Msg("NEGATIVO", "", <<r>>)>> ELSE <<>>)
    \o (IF fl.Z = 1 THEN <<Msg("ZERO", "", <<>>)>> ELSE <<>>)

update_status_bar(w, fl, op_name, x, y, r) ==
    LET found == StatusMessages(fl, op_name, x, y, r)
        messages == IF found = <<>>
                    THEN <<Msg("Operacion exitosa", op_name, <<r>>)>>
                    ELSE found
    IN  [w EXCEPT !.status_label =
            [msgs |-> SubSeq(messages, 1, IF Len(messages) < 2 THEN Len(messages) ELSE 2),
             bg |-> IF fl.V = 1 \/ fl.C = 1 THEN "led_on_red"
                    ELSE IF fl.N = 1 THEN "warning_color"
                    ELSE IF fl.Z = 1 THEN "led_on_green"
                    ELSE "accent_color"]]

\* the colour execute_operation gives the LED of flag k
LedColour(k, value) ==
    IF value = 1
    THEN IF k \in {"C", "V"} THEN "led_on_red" ELSE "led_on_green"
    ELSE "led_off"

\* execute_operation that checks the range only after the engine has run
execute_operation_validate_late(w, self, op) ==
    LET x == py_int(w.entry_a)
        y == py_int(w.entry_b)
        nocall == [made |-> FALSE, a |-> 0, b |-> 0, ret |-> NoReturn]
    IN  IF ~x.ok \/ ~y.ok
        THEN [w |-> [w EXCEPT !.messagebox = "Error de Entrada"],
              self |-> self, call |-> nocall]
        ELSE IF ~(0 <= x.value /\ x.value <= 255 /\ 0 <= y.value /\ y.value <= 255)
        THEN [w |-> [w EXCEPT !.messagebox = "Error de Rango"],
              self |-> execute(self, x.value, y.value, op).self, call |-> nocall]
        ELSE LET r == execute(self, x.value, y.value, op)
                 call == [made |-> TRUE, a |-> x.value, b |-> y.value, ret |-> r.ret]
             IN  IF r.ret.kind = "ValueError"
                 THEN [w |-> [w EXCEPT !.messagebox = "Error de Entrada"],
                       self |-> r.self, call |-> call]
                 ELSE LET w1 == update_result_display(
                                   [w EXCEPT !.current_result = r.ret.result])
                          w2 == [w1 EXCEPT
                                   !.btn_accumulator = "normal",
                                   !.flag_leds = [k \in DOMAIN r.ret.flags |->
                                                    LedColour(k, r.ret.flags[k])]]
                      IN  [w |-> update_status_bar(w2, r.ret.flags,
                                     get_operation_name(op), x.value, y.value,
                                     r.ret.result),
                           self |-> r.self, call |-> call]

\* execute_operation that enables the accumulator button before the range test
execute_operation_enable_on_error(w, self, op) ==
    LET x == py_int(w.entry_a)
        y == py_int(w.entry_b)
        nocall == [made |-> FALSE, a |-> 0, b |-> 0, ret |-> NoReturn]
    IN  IF ~x.ok \/ ~y.ok
        THEN [w |-> [w EXCEPT !.messagebox = "Error de Entrada"],
              self |-> self, call |-> nocall]
        ELSE IF ~(0 <= x.value /\ x.value <= 255 /\ 0 <= y.value /\ y.value <= 255)
        THEN [w |-> [w EXCEPT !.messagebox = "Error de Rango",
                              !.btn_accumulator = "normal"],
              self |-> self, call |-> nocall]
        ELSE LET r == execute(self, x.value, y.value, op)
                 call == [made |-> TRUE, a |-> x.value, b |-> y.value, ret |-> r.ret]
             IN  IF r.ret.kind = "ValueError"
                 THEN [w |-> [w EXCEPT !.messagebox = "Error de Entrada"],
                       self |-> r.self, call |-> call]
                 ELSE LET w1 == update_result_display(
                                   [w EXCEPT !.current_result = r.ret.result])
                          w2 == [w1 EXCEPT
                                   !.btn_accumulator = "normal",
                                   !.flag_leds = [k \in DOMAIN r.ret.flags |->
                                                    LedColour(k, r.ret.flags[k])]]
                      IN  [w |-> update_status_bar(w2, r.ret.flags,
                                     get_operation_name(op), x.value, y.value,
                                     r.ret.result),
                           self |-> r.self, call |-> call]

\* execute_operation: the window and the engine afterwards, and the call it
\* made on the engine (made = FALSE when it returned before the call)
execute_operation(w, self, op) ==
    LET x == py_int(w.entry_a)
        y == py_int(w.entry_b)
        nocall == [made |-> FALSE, a |-> 0, b |-> 0, ret |-> NoReturn]
    IN  IF ~x.ok \/ ~y.ok
        THEN [w |-> [w EXCEPT !.messagebox = "Error de Entrada"],
              self |-> self, call |-> nocall]
        ELSE IF ~(0 <= x.value /\ x.value <= 255 /\ 0 <= y.value /\ y.value <= 255)
        THEN [w |-> [w EXCEPT !.messagebox = "Error de Rango"],
              self |-> self, call |-> nocall]
        ELSE LET r == execute(self, x.value, y.value, op)
                 call == [made |-> TRUE, a |-> x.value, b |-> y.value, ret |-> r.ret]
             IN  IF r.ret.kind = "ValueError"
                 THEN [w |-> [w EXCEPT !.messagebox = "Error de Entrada"],
                       self |-> r.self, call |-> call]
                 ELSE LET w1 == update_result_display(
                                   [w EXCEPT !.current_result = r.ret.result])
                          w2 == [w1 EXCEPT
                                   !.btn_accumulator = "normal",
                                   !.flag_leds = [k \in DOMAIN r.ret.flags |->
                                                    LedColour(k, r.ret.flags[k])]]
                      IN  [w |-> update_status_bar(w2, r.ret.flags,
                                     get_operation_name(op), x.value, y.value,
                                     r.ret.result),
                           self |-> r.self, call |-> call]

\* accumulator_cycle: reading self.label_result raises AttributeError when
\* the window has no such attribute, and the handler's except clause turns
\* any exception into a status bar message
accumulator_cycle(w, self) ==
    IF "label_result" \notin GuiAttributes
    THEN [w EXCEPT !.status_label =
            [msgs |-> <<Msg("Error en ciclo de acumulador",
                            "'ALUSimulatorGUI' object has no attribute 'label_result'",
                            <<>>)>>,
             bg |-> "led_on_red"]]
    ELSE LET w1 == update_binary_a([w EXCEPT !.entry_a = py_str(self.result)])
             w2 == update_binary_b([w1 EXCEPT !.entry_b = py_str(0)])
         IN  [w2 EXCEPT !.status_label =
                [msgs |-> <<Msg("Acumulador", "", <<self.result>>)>>,
                 bg |-> "warning_color"]]

\* the texts a user leaves in an entry: a value, a value out of range and
\* a letter
GuiValues == {254}

GuiTexts ==
    {py_str(n) : n \in GuiValues} \cup {py_str(256), <<"x">>}

\* the checkboxes of a row a user clicks (1 is bit 7, 8 is bit 0)
GuiBits == {1}

\* a seventh button whose opcode the engine does not know
ButtonOpcodes_with_seventh == {OP_ADD, OP_SUB, OP_AND, OP_OR, OP_XOR, OP_NOT, 6}

\* the opcodes of the six operation buttons
ButtonOpcodes == {OP_ADD, OP_SUB, OP_AND, OP_OR, OP_XOR, OP_NOT}

\* a key is released in entry A, leaving text there
KeyReleaseA(text) ==
    /\ SetWindow(update_binary_a([Window EXCEPT !.entry_a = text]))
    /\ UNCHANGED <<engine_vars, call_vars, lookup_vars, alias_vars, conc_vars>>

KeyReleaseB(text) ==
    /\ SetWindow(update_binary_b([Window EXCEPT !.entry_b = text]))
    /\ UNCHANGED <<engine_vars, call_vars, lookup_vars, alias_vars, conc_vars>>

\* a checkbox of row A is clicked: Tk flips its variable, then runs the command
ClickBitA(i) ==
    /\ SetWindow(sync_bits_to_text_a(
                    [Window EXCEPT !.bit_vars_a[i] = 1 - bit_vars_a[i]]))
    /\ UNCHANGED <<engine_vars, call_vars, lookup_vars, alias_vars, conc_vars>>

ClickBitB(i) ==
    /\ SetWindow(sync_bits_to_text_b(
                    [Window EXCEPT !.bit_vars_b[i] = 1 - bit_vars_b[i]]))
    /\ UNCHANGED <<engine_vars, call_vars, lookup_vars, alias_vars, conc_vars>>

\* the signed checkbox is clicked
ClickSigned ==
    /\ SetWindow(update_result_display(
                    [Window EXCEPT !.show_signed = 1 - show_signed]))
    /\ UNCHANGED <<engine_vars, call_vars, lookup_vars, alias_vars, conc_vars>>

\* an operation button is clicked
ClickOperation(op) ==
    \E r \in {execute_operation(Window, Engine, op)} :
        /\ SetWindow(r.w)
        /\ result' = r.self.result
        /\ flags' = r.self.flags
        /\ IF r.call.made
           THEN /\ a' = r.call.a
                /\ b' = r.call.b
                /\ opcode' = op
                /\ ret' = r.call.ret
           ELSE UNCHANGED call_vars
        /\ UNCHANGED <<lookup_vars, alias_vars, conc_vars>>

\* the accumulator button is clicked; a disabled button takes no clicks
ClickAccumulator ==
    /\ btn_accumulator = "normal"
    /\ SetWindow(accumulator_cycle(Window, Engine))
    /\ UNCHANGED <<engine_vars, call_vars, lookup_vars, alias_vars, conc_vars>>

NextGUI ==
    \/ \E text \in GuiTexts : KeyReleaseA(text)
    \/ \E text \in GuiTexts : KeyReleaseB(text)
    \/ \E i \in GuiBits : ClickBitA(i)
    \/ \E i \in GuiBits : ClickBitB(i)
    \/ ClickSigned
    \/ \E op \in ButtonOpcodes : ClickOperation(op)
    \/ ClickAccumulator

SpecGUI == Init /\ [][NextGUI]_vars

-----------------------------------------------------------------------------
(* Reference definitions for the properties: the bits of an 8-bit value    *)
(* by division, independent of the operators above.                        *)

Byte == 0..255

ValidOpcodes == {OP_ADD, OP_SUB, OP_AND, OP_OR, OP_XOR, OP_NOT}

LogicalOpcodes == {OP_AND, OP_OR, OP_XOR, OP_NOT}

\* the latest call has been made and returned a (result, flags) pair
Returned == ret.kind = "ok"

\* some call has been made
Called == ret.kind # "none"

\* bit i of the low byte of x
BitOf(x, i) == ((x % 256) \div (2 ^ i)) % 2

\* the byte whose bit i is f[i]
FromBits(f) ==
    f[0] + 2 * f[1] + 4 * f[2] + 8 * f[3] + 16 * f[4] + 32 * f[5] + 64 * f[6] + 128 * f[7]

-----------------------------------------------------------------------------
(* Properties.                                                             *)

\* C1: for a, b in 0..255, execute(a, b, ADD) returns (a + b) mod 256, and
\* the returned Carry is 1 if and only if a + b > 255.
C1_AddResultAndCarry ==
    (Called /\ opcode = OP_ADD /\ a \in Byte /\ b \in Byte) =>
        /\ Returned
        /\ ret.result = (a + b) % 256
        /\ ret.flags.C \in {0, 1}
        /\ (ret.flags.C = 1) <=> (a + b > 255)

\* an addition of in-range operands that carried
C1_Witness ==
    /\ Returned /\ opcode = OP_ADD /\ a \in Byte /\ b \in Byte
    /\ a + b > 255 /\ ret.flags.C = 1 /\ ret.result = a + b - 256

\* C2: for a, b in 0..255, execute(a, b, SUB) returns (a - b) mod 256, and
\* the returned Carry is 1 if and only if a < b (a borrow occurred).
C2_SubResultAndBorrow ==
    (Called /\ opcode = OP_SUB /\ a \in Byte /\ b \in Byte) =>
        /\ Returned
        /\ ret.result = (a - b) % 256
        /\ ret.flags.C \in {0, 1}
        /\ (ret.flags.C = 1) <=> (a < b)

\* a subtraction of in-range operands that borrowed and wrapped around
C2_Witness ==
    /\ Returned /\ opcode = OP_SUB /\ a \in Byte /\ b \in Byte
    /\ a < b /\ ret.flags.C = 1 /\ ret.result = a - b + 256

\* C3: for ADD, the returned Overflow is 1 if and only if bit 7 of the masked
\* a equals bit 7 of the masked b and bit 7 of the 8-bit result differs from
\* bit 7 of a; the result it is evaluated on is the truncated one.
C3_AddOverflowRule ==
    (Called /\ opcode = OP_ADD) =>
        /\ Returned
        /\ ret.result \in Byte
        /\ ret.flags.V \in {0, 1}
        /\ (ret.flags.V = 1) <=>
               (BitOf(a, 7) = BitOf(b, 7) /\ BitOf(ret.result, 7) # BitOf(a, 7))

\* an addition of two operands of one sign whose result has the other sign
C3_Witness ==
    /\ Returned /\ opcode = OP_ADD /\ ret.flags.V = 1
    /\ BitOf(a, 7) = BitOf(b, 7) /\ BitOf(ret.result, 7) # BitOf(a, 7)

\* C4: for SUB, the returned Overflow is 1 if and only if bit 7 of the masked
\* a differs from bit 7 of the masked b and bit 7 of the 8-bit result differs
\* from bit 7 of a.
C4_SubOverflowRule ==
    (Called /\ opcode = OP_SUB) =>
        /\ Returned
        /\ ret.result \in Byte
        /\ ret.flags.V \in {0, 1}
        /\ (ret.flags.V = 1) <=>
               (BitOf(a, 7) # BitOf(b, 7) /\ BitOf(ret.result, 7) # BitOf(a, 7))

\* a subtraction of operands of different signs whose result has b's sign
C4_Witness ==
    /\ Returned /\ opcode = OP_SUB /\ ret.flags.V = 1
    /\ BitOf(a, 7) # BitOf(b, 7) /\ BitOf(ret.result, 7) = BitOf(b, 7)

\* C5: for each of the six opcodes and all operands, the returned Zero flag
\* is 1 if and only if the returned result is 0.
C5_ZeroFlag ==
    (Called /\ opcode \in ValidOpcodes) =>
        /\ Returned
        /\ ret.flags.Z \in {0, 1}
        /\ (ret.flags.Z = 1) <=> (ret.result = 0)

\* a logical operation that returned 0 with Z set (NOT of 255)
C5_Witness ==
    /\ Returned /\ opcode = OP_NOT /\ a = 255
    /\ ret.result = 0 /\ ret.flags.Z = 1

\* C6: for each of the six opcodes and all operands, the returned Negative
\* flag is 1 if and only if bit 7 (0x80) of the returned result is set.
C6_NegativeFlag ==
    (Called /\ opcode \in ValidOpcodes) =>
        /\ Returned
        /\ ret.flags.N \in {0, 1}
        /\ (ret.flags.N = 1) <=> (ret.result >= 128)

\* an operation whose result has bit 7 set and bit 6 clear, with N set
C6_Witness ==
    /\ Returned /\ ret.result = 128 /\ ret.flags.N = 1

\* C7: for AND, OR, XOR and NOT the returned Carry and the returned Overflow
\* are both 0 for all operands, whatever flags the previous call produced:
\* no step from any engine state into a returned logical operation yields
\* a C or V of 1, in the returned flags or in the retained ones.
C7_LogicalClearCarryOverflow ==
    [][(opcode' \in LogicalOpcodes /\ ret'.kind # "none") =>
          /\ ret'.kind = "ok"
          /\ ret'.flags.C = 0 /\ ret'.flags.V = 0
          /\ flags'.C = 0 /\ flags'.V = 0]_vars

\* a logical operation has returned with C = 0 and V = 0
C7_Witness ==
    /\ Returned /\ opcode \in LogicalOpcodes
    /\ ret.flags.C = 0 /\ ret.flags.V = 0

\* C8: for all a, b, execute(a, b, AND) returns the bitwise AND of the two
\* operands masked to 8 bits, execute(a, b, OR) the bitwise OR and
\* execute(a, b, XOR) the bitwise XOR.
C8_LogicalResults ==
    (Called /\ opcode \in {OP_AND, OP_OR, OP_XOR}) =>
        /\ Returned
        /\ opcode = OP_AND =>
              ret.result = FromBits([i \in 0..7 |->
                  IF BitOf(a, i) = 1 /\ BitOf(b, i) = 1 THEN 1 ELSE 0])
        /\ opcode = OP_OR =>
              ret.result = FromBits([i \in 0..7 |->
                  IF BitOf(a, i) = 1 \/ BitOf(b, i) = 1 THEN 1 ELSE 0])
        /\ opcode = OP_XOR =>
              ret.result = FromBits([i \in 0..7 |->
                  IF BitOf(a, i) # BitOf(b, i) THEN 1 ELSE 0])

\* an OR of two operands that share a bit and differ in another, so that
\* AND, OR and XOR of them are three different values
C8_Witness ==
    /\ Returned /\ opcode = OP_OR
    /\ \E i \in 0..7 : BitOf(a, i) = 1 /\ BitOf(b, i) = 1
    /\ \E i \in 0..7 : BitOf(a, i) # BitOf(b, i)
    /\ ret.result # 0

\* C9: for all a, execute(a, b, NOT) returns the 8-bit complement of a,
\* 255 - (a mod 256), and the result and the four flags are the same for
\* every value of the second operand.
C9_NotIgnoresB ==
    (Called /\ opcode = OP_NOT) =>
        /\ Returned
        /\ ret.result = 255 - (a % 256)
        /\ \A y \in Operands : execute(Engine, a, y, OP_NOT).ret = ret

\* a NOT whose second operand is not 0 and differs from the first
C9_Witness ==
    /\ Returned /\ opcode = OP_NOT /\ b % 256 # 0 /\ b % 256 # a % 256
    /\ ret.result = 255 - (a % 256)

\* C10: for any integers a and b and every opcode, execute(a, b, opcode)
\* returns the same result and flags as execute(a mod 256, b mod 256,
\* opcode), and out-of-range operands are never rejected.
C10_OperandMasking ==
    Called =>
        /\ ret = execute(Engine, a % 256, b % 256, opcode).ret
        /\ opcode \in ValidOpcodes => Returned

\* an addition with an operand below 0 and one above 255 has returned
C10_Witness ==
    /\ Returned /\ opcode = OP_ADD
    /\ (a < 0 /\ b > 255) \/ (a > 255 /\ b < 0)

\* the value of the byte x read as a two's-complement number
Signed(x) == IF x >= 128 THEN x - 256 ELSE x

\* an engine every field of which differs from a new engine's
DirtyEngine == [result |-> 77, flags |-> [Z |-> 1, N |-> 1, C |-> 1, V |-> 1]]

\* C11: the (result, flags) returned by execute(a, b, opcode) depends only on
\* a, b and opcode, never on the engine's retained result or flags: the call
\* returns what it returns on a new engine, on an engine with every flag
\* set, and when it is repeated on the engine it has just left behind.
C11_HistoryIndependence ==
    Called =>
        \A e \in {ALU_init, DirtyEngine, Engine} :
            execute(e, a, b, opcode).ret = ret

\* a call has returned on an engine it left with a result and flags that
\* differ from a new engine's, so that repeating it starts from another state
C11_Witness ==
    /\ Returned /\ result # 0 /\ flags.C = 1 /\ flags.N = 1
    /\ Engine # ALU_init

\* C12: execute called with an opcode outside 0..5 fails with the
\* invalid-opcode error and returns no (result, flags) pair.
C12_InvalidOpcodeRaises ==
    (Called /\ opcode \notin ValidOpcodes) => ret.kind = "ValueError"

\* a call with an opcode outside 0..5 has been rejected
C12_Witness ==
    /\ opcode \notin ValidOpcodes /\ ret.kind = "ValueError"

\* C13 (as claimed): after any sequence of execute calls, rejected ones
\* included, retained Z is 1 iff the retained result is 0, retained N is bit 7
\* of the retained result, and after a call that succeeded the retained
\* result and flags are the returned ones.
C13_RetainedConsistent ==
    Called =>
        /\ (flags.Z = 1) <=> (result = 0)
        /\ (flags.N = 1) <=> (result >= 128)
        /\ Returned => (result = ret.result /\ flags = ret.flags)

\* C15: a new engine has result 0 and all four flags 0, and in every
\* reachable state the retained result is in 0..255 and each flag is 0 or 1.
C15_InitAndRanges ==
    /\ ~Called => (result = 0 /\ flags = [Z |-> 0, N |-> 0, C |-> 0, V |-> 0])
    /\ result \in Byte
    /\ DOMAIN flags = {"Z", "N", "C", "V"}
    /\ \A f \in DOMAIN flags : flags[f] \in {0, 1}

\* a call with a negative operand has left a result with bit 7 set
C15_Witness ==
    /\ Returned /\ a < 0 /\ result >= 128 /\ flags.N = 1

\* C18: reading a, b in 0..255 as signed values sa, sb in -128..127, V after
\* ADD is 1 iff sa + sb lies outside -128..127 and V after SUB is 1 iff
\* sa - sb lies outside -128..127.
C18_OverflowIsSignedOverflow ==
    (Called /\ a \in Byte /\ b \in Byte) =>
        /\ opcode = OP_ADD =>
              /\ Returned
              /\ (ret.flags.V = 1) <=> (Signed(a) + Signed(b) \notin -128..127)
        /\ opcode = OP_SUB =>
              /\ Returned
              /\ (ret.flags.V = 1) <=> (Signed(a) - Signed(b) \notin -128..127)

\* a subtraction of a negative from a non-negative operand that overflowed
C18_Witness ==
    /\ Returned /\ opcode = OP_SUB /\ a \in Byte /\ b \in Byte
    /\ Signed(a) >= 0 /\ Signed(b) < 0
    /\ Signed(a) - Signed(b) > 127 /\ ret.flags.V = 1

\* C19: a call rejected for an invalid opcode leaves the retained result as
\* it was before the call and leaves all four retained flags 0.
C19_RejectedCallEffect ==
    [][(ret'.kind = "ValueError") =>
          /\ result' = result
          /\ flags' = [Z |-> 0, N |-> 0, C |-> 0, V |-> 0]]_vars

\* a rejected call has kept a result with bit 7 set, whose N flag, set by the
\* call that produced it, is now 0
C19_Witness ==
    /\ ret.kind = "ValueError" /\ result >= 128
    /\ flags = [Z |-> 0, N |-> 0, C |-> 0, V |-> 0]


\* C17: get_operation_name maps each of the six opcodes 0..5 to its own
\* label, different from the other five and from the unknown label, maps
\* every other value to "Desconocida", whatever state the engine is in, and
\* a lookup changes neither the retained result nor the retained flags.
C17_OperationNames ==
    /\ [](name_ret # NoLabel =>
            /\ name_arg \in ValidOpcodes =>
                  /\ name_ret # "Desconocida"
                  /\ \A o \in ValidOpcodes \ {name_arg} :
                        get_operation_name(o) # name_ret
            /\ name_arg \notin ValidOpcodes => name_ret = "Desconocida")
    /\ [][lookup_vars' # lookup_vars => UNCHANGED engine_vars]_vars

\* NOT has been looked up on an engine that holds a result and a set flag
C17_Witness ==
    /\ name_arg = OP_NOT /\ name_ret = "NOT"
    /\ result # 0 /\ flags.N = 1


\* C14: the flags an execute call returns are an independent snapshot: a
\* later execute call does not change flags a caller kept from an earlier
\* one, and a caller's write to the flags it keeps changes neither the
\* engine's retained flags and result nor what a later call returns.  (A
\* step that binds self.flags to another object is an execute call, one that
\* leaves the binding alone is a caller's write; the caller has kept its
\* earlier flags through a call when held is unchanged.)
C14_ReturnedFlagsIndependent ==
    /\ [][(self_flags' # self_flags /\ held # NoObject /\ held' = held)
           => heap'[held] = heap[held]]_vars
    /\ [][(self_flags' = self_flags)
           => (heap'[self_flags'] = heap[self_flags] /\ UNCHANGED <<result, flags>>)]_vars
    /\ [](Called => ret = execute(ALU_init, a, b, opcode).ret)

\* the caller holds flags that differ from the engine's retained ones in C
\* and in Z, after a call that returned
C14_Witness ==
    /\ held # NoObject /\ Returned
    /\ heap[held].C # heap[self_flags].C
    /\ heap[held].Z # heap[self_flags].Z


\* what the call of thread t returns when nothing else runs
OwnReturn(t) == execute(ALU_init, targs[t].a, targs[t].b, targs[t].opcode).ret

\* C16 (as claimed): when threads share one engine and their execute calls
\* interleave, every call returns the result and flags determined by its own
\* operands and opcode.
C16_InterleavedCallsAtomic ==
    \A t \in Threads : pc[t] = "done" => tret[t] = OwnReturn(t)

\* C16 (amended): a call on a shared engine during which no other thread
\* touched the engine returns the result and flags determined by its own
\* operands and opcode.
C16_UninterleavedCalls ==
    \A t \in Threads : (pc[t] = "done" /\ alone[t]) => tret[t] = OwnReturn(t)

\* two threads have each completed a call on the shared engine, one of them
\* undisturbed and with a carry
C16_Witness ==
    \E t \in Threads, u \in Threads :
        /\ t # u
        /\ pc[t] = "done" /\ alone[t] /\ tret[t].kind = "ok" /\ tret[t].flags.C = 1
        /\ pc[u] = "done" /\ tret[u].kind = "ok"


\* C20: whenever accumulator_cycle runs after an operation has completed,
\* afterwards entry A holds the decimal text of the engine's retained result,
\* entry B holds "0", and both checkbox rows show those two values.
C20_AccumulatorCycle ==
    [][ClickAccumulator =>
         /\ entry_a' = py_str(result)
         /\ entry_b' = py_str(0)
         /\ bit_vars_a' = format_08b(result)
         /\ bit_vars_b' = format_08b(0)]_vars


\* C21: through any sequence of window events, every call the window makes of
\* execute has both operands in 0..255 and an opcode in 0..5, and so never
\* raises the invalid-opcode error.
C21_GuiCallsValid ==
    Called => /\ a \in Byte
              /\ b \in Byte
              /\ opcode \in ValidOpcodes
              /\ ret.kind = "ok"

\* a call has been made, and a later click with an operand out of range
\* was turned away before the engine
C21_Witness ==
    /\ Called
    /\ messagebox = "Error de Rango"
    /\ py_int(entry_a).ok
    /\ py_int(entry_a).value \notin Byte


\* an operand text that execute_operation turns away: not an integer, or an
\* integer outside 0..255
BadOperandText(t) == ~py_int(t).ok \/ py_int(t).value \notin Byte

\* C22: when an operation button is clicked while the text of operand A or B
\* is not an integer or is outside 0..255, the handler opens an error dialog
\* and changes nothing else: the engine's result and flags, the displayed
\* result, the flag LEDs, the status bar, the accumulator button and the
\* rest of the window stay as they were, and the engine is not called.
C22_RejectedClickFrame ==
    [][((BadOperandText(entry_a) \/ BadOperandText(entry_b))
          /\ \E op \in ButtonOpcodes : ClickOperation(op))
        => /\ messagebox' = IF py_int(entry_a).ok /\ py_int(entry_b).ok
                            THEN "Error de Rango" ELSE "Error de Entrada"
           /\ UNCHANGED <<result, flags, label_result, flag_leds, status_label,
                          btn_accumulator>>
           /\ UNCHANGED <<call_vars, current_result, show_signed, entry_a,
                          entry_b, bit_vars_a, bit_vars_b, label_a_bin,
                          label_b_bin>>]_vars

\* a click was turned away after an earlier operation had left a result, a
\* lit LED and an enabled accumulator button to preserve
C22_Witness ==
    /\ messagebox # "none"
    /\ BadOperandText(entry_a) \/ BadOperandText(entry_b)
    /\ btn_accumulator = "normal"
    /\ label_result.shown
    /\ flags.N = 1
    /\ flag_leds.N = "led_on_green"


\* the checkbox row (bit 7 first) that is the binary expansion of value
RowOf(value) == [i \in 1..8 |-> BitOf(value, 8 - i)]

\* the value a checkbox row (bit 7 first) stands for
RowValue(bits) == FromBits([k \in 0..7 |-> bits[8 - k]])

\* C23: after any text-change or bit-toggle handler has completed, an operand
\* whose text is an integer in 0..255 has its eight checkboxes (bit 7 first)
\* equal to the binary expansion of that integer; a bit toggle rewrites the
\* text to the decimal value of the checkboxes; and a text that is not an
\* integer or is out of range leaves the checkboxes as they were.
\* (the two step properties are written in contrapositive form: a step that
\* leaves the text different from the value of the row is not a bit toggle,
\* and a step that changes the row is not a key release leaving such a text)
C23_OperandSync ==
    /\ [](/\ ~BadOperandText(entry_a) => bit_vars_a = RowOf(py_int(entry_a).value)
          /\ ~BadOperandText(entry_b) => bit_vars_b = RowOf(py_int(entry_b).value))
    /\ [][entry_a' # py_str(RowValue(bit_vars_a'))
             => ~\E i \in GuiBits : ClickBitA(i)]_vars
    /\ [][entry_b' # py_str(RowValue(bit_vars_b'))
             => ~\E i \in GuiBits : ClickBitB(i)]_vars
    /\ [][bit_vars_a' # bit_vars_a
             => ~\E text \in GuiTexts : BadOperandText(text) /\ KeyReleaseA(text)]_vars
    /\ [][bit_vars_b' # bit_vars_b
             => ~\E text \in GuiTexts : BadOperandText(text) /\ KeyReleaseB(text)]_vars

\* operand A was typed as 254 and its bit 7 then toggled off, so its text is
\* 126 and its row 0111 1110; operand B was typed as 254 and then as text
\* that is out of range, so its row still shows 254
C23_Witness ==
    /\ entry_a = py_str(126)
    /\ bit_vars_a = <<0, 1, 1, 1, 1, 1, 1, 0>>
    /\ BadOperandText(entry_b)
    /\ bit_vars_b = <<1, 1, 1, 1, 1, 1, 1, 0>>


\* the binary label a completed text or bit handler leaves for a text
LabelFor(t) ==
    IF ~py_int(t).ok THEN [kind |-> "valor invalido", bits |-> RowOf(0)]
    ELSE IF py_int(t).value \notin Byte
    THEN [kind |-> "fuera de rango 0-255", bits |-> RowOf(0)]
    ELSE [kind |-> "bits", bits |-> RowOf(py_int(t).value)]

\* C24: whenever no handler is running the four synchronisation guards are
\* all False, whatever texts have been entered, so no text or bit event is
\* ignored: the binary label of each operand always answers the operand's
\* present text.
C24_GuardsClear ==
    /\ ~updating_from_text_a
    /\ ~updating_from_bits_a
    /\ ~updating_from_text_b
    /\ ~updating_from_bits_b
    /\ label_a_bin = LabelFor(entry_a)
    /\ label_b_bin = LabelFor(entry_b)

\* handlers have run on a text that is not an integer and on a text that is
\* out of range, and the guards are clear
C24_Witness ==
    /\ label_a_bin.kind = "valor invalido"
    /\ label_b_bin.kind = "fuera de rango 0-255"
    /\ ~updating_from_text_a
    /\ ~updating_from_text_b
    /\ bit_vars_a # RowOf(0)


\* C25: the accumulator button is disabled at start-up; it is enabled exactly
\* when some click of an operation button has completed an engine call; a
\* click that ends in an error dialog never changes it; and once enabled it
\* is never disabled again.
C25_AccumulatorButton ==
    /\ btn_accumulator = "disabled"
    /\ [](btn_accumulator \in {"disabled", "normal"})
    /\ [](btn_accumulator = "normal" <=> Returned)
    /\ [][messagebox' # "none" => UNCHANGED btn_accumulator]_vars
    /\ [][btn_accumulator = "normal" => btn_accumulator' = "normal"]_vars

\* after a completed operation the operand text was spoiled, a click was
\* turned away, and the button is still enabled
C25_Witness ==
    /\ btn_accumulator = "normal"
    /\ Returned
    /\ messagebox = "Error de Entrada"

====
